---- MODULE Spec2Model ----
(***************************************************************************)
(* Model of the code execution service (apps/code_execution_service):      *)
(* Judge0Service.execute_code and the helpers it calls.                    *)
(*                                                                         *)
(* Representation of Python values                                         *)
(*   str            a sequence of one-character strings                    *)
(*   Optional[str]  None, or a str                                         *)
(*   Optional[int]  NoInt (the empty tuple), or <<n>>                      *)
(*   a decoded JSON value / Any                                            *)
(*                  <<"null">>, <<"int", n>>, <<"str", s>>, <<"list", vs>> *)
(*                  (Python None is <<"null">>)                            *)
(***************************************************************************)
EXTENDS Integers, Sequences, FiniteSets, TLC

\* ---------------------------------------------------------------- bounds
\* Largest number of test cases in one request.
MaxTests == 2
\* Backend status ids range over -1..MaxStatusId (Judge0 documents 1..14).
MaxStatusId == 15
\* Longest generated actual output handed to _compare_outputs.
MaxCmpLen == 3

\* ------------------------------------------------------- program constants
max_attempts == 20

\* ------------------------------------------------------------ Python values
None == <<"None">>
NoInt == <<>>
SomeInt(n) == <<n>>

JNull == <<"null">>
JInt(n) == <<"int", n>>
JStr(s) == <<"str", s>>
JList(vs) == <<"list", vs>>

Whitespace == {" ", "\n", "\t", "\r"}
Digits == <<"0", "1", "2", "3", "4", "5", "6", "7", "8", "9">>
DigitSet == {Digits[i] : i \in 1..10}
DigitVal(c) == (CHOOSE i \in 1..10 : Digits[i] = c) - 1

\* str.strip(): drop leading and trailing whitespace.
RECURSIVE LStrip(_)
LStrip(s) ==
    IF s # <<>> /\ Head(s) \in Whitespace THEN LStrip(Tail(s)) ELSE s

RECURSIVE RStrip(_)
RStrip(s) ==
    IF s # <<>> /\ s[Len(s)] \in Whitespace
    THEN RStrip(SubSeq(s, 1, Len(s) - 1))
    ELSE s

Strip(s) == RStrip(LStrip(s))

\* Truth value of an Optional[str]: None and "" are falsy.
Truthy(s) == s # None /\ s # <<>>

\* ------------------------------------------------------------- json.loads
\* The decoder covers this fragment of JSON: whitespace, null, integers
\* without fraction or exponent, strings without escapes, and arrays of
\* such values.  Every document the model feeds it lies in the fragment or
\* is rejected by Python's decoder as well.
ParseFail == [ok |-> FALSE, val |-> JNull, pos |-> 0]
ParseOk(v, p) == [ok |-> TRUE, val |-> v, pos |-> p]

RECURSIVE SkipWs(_, _)
SkipWs(s, i) ==
    IF i <= Len(s) /\ s[i] \in Whitespace THEN SkipWs(s, i + 1) ELSE i

RECURSIVE ScanDigits(_, _, _)
ScanDigits(s, i, acc) ==
    IF i <= Len(s) /\ s[i] \in DigitSet
    THEN ScanDigits(s, i + 1, 10 * acc + DigitVal(s[i]))
    ELSE ParseOk(acc, i)

\* "0" or a non-zero digit followed by digits; a leading zero ends the number.
ParseNat(s, i) ==
    IF i > Len(s) \/ s[i] \notin DigitSet THEN ParseFail
    ELSE IF s[i] = "0" THEN ParseOk(0, i + 1)
    ELSE ScanDigits(s, i, 0)

ParseInt(s, i) ==
    IF i <= Len(s) /\ s[i] = "-"
    THEN LET r == ParseNat(s, i + 1)
         IN  IF r.ok THEN ParseOk(JInt(0 - r.val), r.pos) ELSE ParseFail
    ELSE LET r == ParseNat(s, i)
         IN  IF r.ok THEN ParseOk(JInt(r.val), r.pos) ELSE ParseFail

RECURSIVE ScanString(_, _, _)
ScanString(s, i, acc) ==
    IF i > Len(s) THEN ParseFail
    ELSE IF s[i] = "\"" THEN ParseOk(JStr(acc), i + 1)
    ELSE IF s[i] \in {"\n", "\t", "\r", "\\"} THEN ParseFail
    ELSE ScanString(s, i + 1, Append(acc, s[i]))

IsLiteral(s, i, lit) ==
    /\ i + Len(lit) - 1 <= Len(s)
    /\ SubSeq(s, i, i + Len(lit) - 1) = lit

RECURSIVE ParseValue(_, _)
RECURSIVE ParseElems(_, _, _)

ParseValue(s, i) ==
    IF i > Len(s) THEN ParseFail
    ELSE IF s[i] = "[" THEN
        LET j == SkipWs(s, i + 1)
        IN  IF j <= Len(s) /\ s[j] = "]"
            THEN ParseOk(JList(<<>>), j + 1)
            ELSE ParseElems(s, j, <<>>)
    ELSE IF s[i] = "\"" THEN ScanString(s, i + 1, <<>>)
    ELSE IF s[i] = "n" THEN
        IF IsLiteral(s, i, <<"n", "u", "l", "l">>)
        THEN ParseOk(JNull, i + 4)
        ELSE ParseFail
    ELSE ParseInt(s, i)

ParseElems(s, i, acc) ==
    LET r == ParseValue(s, i)
    IN  IF ~r.ok THEN ParseFail
        ELSE LET j == SkipWs(s, r.pos)
             IN  IF j > Len(s) THEN ParseFail
                 ELSE IF s[j] = "," THEN
                     ParseElems(s, SkipWs(s, j + 1), Append(acc, r.val))
                 ELSE IF s[j] = "]" THEN
                     ParseOk(JList(Append(acc, r.val)), j + 1)
                 ELSE ParseFail

\* json.loads(s): [ok |-> TRUE, val |-> v], or ok = FALSE for JSONDecodeError.
JsonLoads(s) ==
    LET r == ParseValue(s, SkipWs(s, 1))
    IN  IF r.ok /\ SkipWs(s, r.pos) = Len(s) + 1
        THEN [ok |-> TRUE, val |-> r.val]
        ELSE [ok |-> FALSE, val |-> JNull]

\* ------------------------------------------------------------ str(), repr()
RECURSIVE NatToStr(_)
NatToStr(n) ==
    IF n < 10 THEN <<Digits[n + 1]>>
    ELSE NatToStr(n \div 10) \o <<Digits[(n % 10) + 1]>>

IntToStr(n) == IF n < 0 THEN <<"-">> \o NatToStr(0 - n) ELSE NatToStr(n)

RECURSIVE PyRepr(_)
RECURSIVE JoinRepr(_)
JoinRepr(vs) ==
    IF vs = <<>> THEN <<>>
    ELSE IF Len(vs) = 1 THEN PyRepr(vs[1])
    ELSE PyRepr(vs[1]) \o <<",", " ">> \o JoinRepr(Tail(vs))

PyRepr(v) ==
    IF v[1] = "null" THEN <<"N", "o", "n", "e">>
    ELSE IF v[1] = "int" THEN IntToStr(v[2])
    ELSE IF v[1] = "str" THEN <<"'">> \o v[2] \o <<"'">>
    ELSE <<"[">> \o JoinRepr(v[2]) \o <<"]">>

PyStr(v) == IF v[1] = "str" THEN v[2] ELSE PyRepr(v)

\* --------------------------------------------------- Judge0Service helpers
\* how a call ends: it returns a value, or raises
Returned(v) == [raised |-> FALSE, error |-> <<>>, value |-> v]
Raised(kind, text) == [raised |-> TRUE, error |-> <<kind, text>>, value |-> <<>>]

\* _compare_outputs(actual, expected), lines 245-253: the try block, and the
\* except clause for the JSONDecodeError json.loads raises
_compare_outputs_uncaught(actual, expected) ==
    LET actual_parsed == JsonLoads(Strip(actual))
    IN  IF actual_parsed.ok
        THEN Returned(actual_parsed.val = expected)
        ELSE Raised("JSONDecodeError", <<"Expecting value">>)

_compare_outputs_outcome(actual, expected) ==
    LET actual_parsed == JsonLoads(Strip(actual))
    IN  IF actual_parsed.ok
        THEN Returned(actual_parsed.val = expected)
        ELSE Returned(Strip(actual) = Strip(PyStr(expected)))

\* the value _compare_outputs returns to execute_code
_compare_outputs(actual, expected) ==
    _compare_outputs_outcome(actual, expected).value

\* _parse_status: status_map.get(id, INTERNAL_ERROR)
_parse_status_no_default(id) ==
    CASE id = 3 -> "accepted"
      [] id = 4 -> "wrong_answer"
      [] id = 5 -> "time_limit_exceeded"
      [] id = 6 -> "compilation_error"
      [] id \in 7..12 -> "runtime_error"
      [] id \in 13..14 -> "internal_error"
      [] OTHER -> "runtime_error"

_parse_status_with_memory_limit(id) ==
    CASE id = 3 -> "accepted"
      [] id = 4 -> "wrong_answer"
      [] id = 5 -> "time_limit_exceeded"
      [] id = 6 -> "compilation_error"
      [] id \in 7..11 -> "runtime_error"
      [] id = 12 -> "memory_limit_exceeded"
      [] OTHER -> "internal_error"

_parse_status(id) ==
    CASE id = 3 -> "accepted"
      [] id = 4 -> "wrong_answer"
      [] id = 5 -> "time_limit_exceeded"
      [] id = 6 -> "compilation_error"
      [] id = 7 -> "runtime_error"
      [] id = 8 -> "runtime_error"
      [] id = 9 -> "runtime_error"
      [] id = 10 -> "runtime_error"
      [] id = 11 -> "runtime_error"
      [] id = 12 -> "runtime_error"
      [] id = 13 -> "internal_error"
      [] id = 14 -> "internal_error"
      [] OTHER -> "internal_error"

\* ExecutionStatus
ExecutionStatus ==
    {"accepted", "wrong_answer", "time_limit_exceeded", "memory_limit_exceeded",
     "runtime_error", "compilation_error", "internal_error"}

\* int(float(t) * 1000) for a decimal literal "d+" or "d+.d*"; ok = FALSE is
\* the ValueError float() raises for anything else the model supplies.  The
\* product is taken exactly; the literals in Payloads are ones for which
\* binary rounding does not change the truncated result.
RECURSIVE ScanFraction(_, _, _, _)
ScanFraction(s, i, acc, scale) ==
    IF i > Len(s) THEN ParseOk(acc, i)
    ELSE IF s[i] \notin DigitSet THEN ParseFail
    ELSE ScanFraction(s, i + 1, acc + scale * DigitVal(s[i]), scale \div 10)

FloatTimes1000(s) ==
    LET w == ScanDigits(s, 1, 0)
    IN  IF w.pos = 1 THEN ParseFail
        ELSE IF w.pos > Len(s) THEN ParseOk(1000 * w.val, w.pos)
        ELSE IF s[w.pos] # "." THEN ParseFail
        ELSE ScanFraction(s, w.pos + 1, 1000 * w.val, 100)

\* a local variable not assigned yet
Unassigned == "unassigned"

\* x or y, on Optional[str]
PyOr(x, y) == IF Truthy(x) THEN x ELSE y

\* ----------------------------------------------------------------- inputs
\* stdout documents the backend may report
OutList01 == <<"[", "0", ",", " ", "1", "]", "\n">>
OutWord == <<"o", "k">>
OutBlank == <<" ", "\n">>

\* TestCaseInput records a request may carry (order_index is not unique).
TestCaseInputs ==
    { [input_data |-> <<"nums">>,
       expected_output |-> JList(<<JInt(0), JInt(1)>>),
       order_index |-> 0],
      [input_data |-> <<"word">>,
       expected_output |-> JStr(OutWord),
       order_index |-> 1] }

RECURSIVE SeqsUpTo(_, _)
SeqsUpTo(S, n) ==
    IF n = 0 THEN {<<>>}
    ELSE LET shorter == SeqsUpTo(S, n - 1)
         IN  shorter \cup {Append(q, x) : q \in shorter, x \in S}

Requests == SeqsUpTo(TestCaseInputs, MaxTests)

\* Status ids a GET may report.
StatusIds == -1..MaxStatusId

\* The fields of a Judge0Result other than its status.
Payload(out, err, co, t, m) ==
    [stdout |-> out, stderr |-> err, compile_output |-> co, time |-> t, memory |-> m]

Payloads ==
    { Payload(OutList01, None, None, <<"0", ".", "0", "1">>, SomeInt(3456)),
      Payload(OutWord, <<"w", "a", "r", "n">>, None, <<"0", ".", "0", "1", "5">>, NoInt),
      Payload(None, <<"E", "r", "r", "\n">>, None, <<"0", ".", "0", "1">>, SomeInt(3456)),
      Payload(None, None, <<"b", "a", "d">>, None, SomeInt(3457)),
      Payload(OutBlank, <<" ">>, <<>>, <<"2", ".", "5">>, SomeInt(0)),
      Payload(None, None, None, <<"a", "b", "c">>, SomeInt(3456)) }

\* str(e) of the exceptions the loop body can raise
PrepareErrorText == <<"_prepare_code raised">>
PostErrorText == <<"POST /submissions failed">>
GetErrorText == <<"GET /submissions/{token} failed">>
TimeoutText == <<"Submission execution timed out">>
ValueErrorText == <<"could not convert string to float">>
CompilationFailedText == <<"Compilation failed">>

\* ------------------------------------------------- module-level objects
\* LanguageEnum
Languages == {"python", "javascript", "java", "cpp"}

\* LANGUAGE_IDS as the module defines it
LanguageIds ==
    [l \in Languages |->
        CASE l = "python" -> 71
          [] l = "javascript" -> 63
          [] l = "java" -> 89
          [] l = "cpp" -> 89]

\* Settings() with no environment overrides; seconds and KB
Settings ==
    [judge0_url |-> <<"http://judgezero-server:2358">>,
     judge0_auth_token |-> None,
     default_time_limit |-> 5,
     default_memory_limit |-> 128000,
     max_time_limit |-> 15,
     max_memory_limit |-> 512000]

\* Judge0Service.__init__
Judge0Service(s) ==
    [base_url |-> s.judge0_url,
     auth_token |-> s.judge0_auth_token,
     default_time_limit |-> s.default_time_limit,
     default_memory_limit |-> s.default_memory_limit]

\* ------------------------------------------------------------------ state
VARIABLES
    test_cases,        \* request.test_cases
    pc,                \* where execute_code stands
    idx,               \* position of `for test_case in request.test_cases`
    token,             \* submission handle of the current test case
    attempts,          \* iterations of the poll loop begun for `token`
    polled,            \* status id of the latest GET response for `token`
    status,            \* `status` as assigned at line 289
    results,
    compilation_error,
    total_runtime,
    total_memory,
    successful_runs,
    response,          \* the CodeExecutionResponse returned
    posts,             \* history: the test cases POSTed, in order
    open_handles,      \* history: handles whose poll loop has not ended
    io,                \* history: backend call made by the latest step
    raised,            \* history: exception caught by the latest step
    ce_assigned,       \* history: assignments to compilation_error
    judge0_service,    \* the Judge0Service instance (router.py line 20)
    LANGUAGE_IDS,      \* the module-level table, language -> backend id
    settings,          \* the module-level Settings object
    cur,               \* the request whose coroutine is running
    parked,            \* the frame of the suspended coroutine, if any
    call,              \* a function called on its own, and its arguments
    ret                \* what that function produced, step by step

vars ==
    <<test_cases, pc, idx, token, attempts, polled, status, results,
      compilation_error, total_runtime, total_memory, successful_runs,
      response, posts, open_handles, io, raised, ce_assigned,
      judge0_service, LANGUAGE_IDS, settings, cur, parked, call, ret>>

\* what a step of execute_code leaves alone: the objects shared by all
\* requests, the other coroutine, and the function-call harness
shared == <<judge0_service, LANGUAGE_IDS, settings>>
others == <<cur, parked, call, ret>>

\* the module is imported: settings, then the table, then the instance
SharedInit ==
    /\ settings = Settings
    /\ LANGUAGE_IDS = LanguageIds
    /\ judge0_service = Judge0Service(Settings)

\* lines 260-266: execute_code is entered with the request's test cases
InitialFrame(tcs) ==
    [test_cases |-> tcs,
     pc |-> IF tcs = <<>> THEN "return" ELSE "prepare",
     idx |-> 1,
     token |-> NoInt,
     attempts |-> 0,
     polled |-> NoInt,
     status |-> Unassigned,
     results |-> <<>>,
     compilation_error |-> None,
     total_runtime |-> 0,
     total_memory |-> 0,
     successful_runs |-> 0,
     response |-> <<>>,
     posts |-> <<>>,
     open_handles |-> {},
     io |-> "none",
     raised |-> "none",
     ce_assigned |-> 0]

\* the running coroutine's locals are those of f
Starts(f) ==
    /\ test_cases = f.test_cases
    /\ pc = f.pc
    /\ idx = f.idx
    /\ token = f.token
    /\ attempts = f.attempts
    /\ polled = f.polled
    /\ status = f.status
    /\ results = f.results
    /\ compilation_error = f.compilation_error
    /\ total_runtime = f.total_runtime
    /\ total_memory = f.total_memory
    /\ successful_runs = f.successful_runs
    /\ response = f.response
    /\ posts = f.posts
    /\ open_handles = f.open_handles
    /\ io = f.io
    /\ raised = f.raised
    /\ ce_assigned = f.ce_assigned

Init ==
    /\ SharedInit
    /\ cur = 1
    /\ parked = <<>>
    /\ call = [fn |-> "none"]
    /\ ret = <<>>
    /\ \E tcs \in Requests : Starts(InitialFrame(tcs))

\* ------------------------------------------------------- TestCaseResult
TestCaseResult(tc, actual, passed, rt, mem, st, msg, out, err) ==
    [order_index |-> tc.order_index,
     input_data |-> tc.input_data,
     expected_output |-> tc.expected_output,
     actual_output |-> actual,
     passed |-> passed,
     runtime_ms |-> rt,
     memory_kb |-> mem,
     status |-> st,
     error_message |-> msg,
     stdout |-> out,
     stderr |-> err]

\* lines 299-307
CompilationErrorResult(tc, msg) ==
    TestCaseResult(tc, JNull, FALSE, NoInt, NoInt, "compilation_error", msg, None, None)

\* lines 368-376
InternalErrorResult(tc, msg) ==
    TestCaseResult(tc, JNull, FALSE, NoInt, NoInt, "internal_error", msg, None, None)

\* The for loop moves to the next test case, or ends.
NextIterationRetries ==
    /\ idx' = idx
    /\ pc' = "prepare"
    /\ token' = NoInt
    /\ attempts' = 0
    /\ polled' = NoInt
    /\ status' = Unassigned

NextIteration ==
    /\ idx' = idx + 1
    /\ pc' = IF idx + 1 <= Len(test_cases) THEN "prepare" ELSE "return"
    /\ token' = NoInt
    /\ attempts' = 0
    /\ polled' = NoInt
    /\ status' = Unassigned

\* except Exception as e (lines 365-377)
CaughtAborts(kind, text) ==
    /\ results' = Append(results, InternalErrorResult(test_cases[idx], text))
    /\ raised' = kind
    /\ pc' = "return"
    /\ UNCHANGED <<idx, token, attempts, polled, status>>
    /\ UNCHANGED <<test_cases, compilation_error, total_runtime, total_memory,
                   successful_runs, response, ce_assigned>>

Caught(kind, text) ==
    /\ results' = Append(results, InternalErrorResult(test_cases[idx], text))
    /\ raised' = kind
    /\ NextIteration
    /\ UNCHANGED <<test_cases, compilation_error, total_runtime, total_memory,
                   successful_runs, response, ce_assigned>>

\* ---------------------------------------------------------------- actions
\* lines 269-274: _prepare_code returns, or raises (a signature without a
\* key the generator reads, a bundled library file that cannot be read).
PrepareCode ==
    /\ pc = "prepare"
    /\ UNCHANGED shared
    /\ UNCHANGED others
    /\ io' = "none"
    /\ \/ /\ pc' = "submit"
          /\ raised' = "none"
          /\ UNCHANGED <<test_cases, idx, token, attempts, polled, status, results,
                         compilation_error, total_runtime, total_memory,
                         successful_runs, response, ce_assigned>>
       \/ Caught("PrepareError", PrepareErrorText)
    /\ UNCHANGED <<posts, open_handles>>

\* lines 277-285, submit_code (165-201): POST /submissions; the response
\* yields a token, or raise_for_status / the payload validation raises.
SubmitCode ==
    /\ pc = "submit"
    /\ UNCHANGED shared
    /\ UNCHANGED others
    /\ io' = "POST"
    /\ posts' = Append(posts, idx)
    /\ \/ /\ token' = SomeInt(Len(posts) + 1)
          /\ open_handles' = open_handles \cup {Len(posts) + 1}
          /\ pc' = "poll"
          /\ attempts' = 0
          /\ raised' = "none"
          /\ UNCHANGED <<test_cases, idx, polled, status, results,
                         compilation_error, total_runtime, total_memory,
                         successful_runs, response, ce_assigned>>
       \/ /\ Caught("HTTPError", PostErrorText)
          /\ UNCHANGED open_handles

\* line 220: `result.status.id not in [1, 2]`
IsTerminalBroken(id) == id # 1
IsTerminal(id) == id \notin {1, 2}

\* get_submission_result, lines 210-221, one iteration: GET the submission;
\* a status id outside [1, 2] is returned to execute_code, which maps it
\* (line 289); raise_for_status or the payload validation may raise.
Poll ==
    /\ pc = "poll"
    /\ UNCHANGED shared
    /\ UNCHANGED others
    /\ io' = "GET"
    /\ UNCHANGED posts
    /\ \/ \E id \in StatusIds :
             /\ polled' = SomeInt(id)
             /\ raised' = "none"
             /\ IF IsTerminal(id)
                THEN /\ status' = _parse_status(id)
                     /\ pc' = "evaluate"
                     /\ attempts' = 0
                     /\ open_handles' = open_handles \ {token[1]}
                ELSE /\ status' = status
                     /\ pc' = "sleep"
                     /\ attempts' = attempts + 1
                     /\ open_handles' = open_handles
             /\ UNCHANGED <<test_cases, idx, token, results, compilation_error,
                            total_runtime, total_memory, successful_runs,
                            response, ce_assigned>>
       \/ /\ Caught("HTTPError", GetErrorText)
          /\ open_handles' = open_handles \ {token[1]}

\* line 210: `for _ in range(max_attempts)` has iterations left
MoreAttemptsOffByOne == attempts <= max_attempts
MoreAttemptsForever == TRUE
MoreAttempts == attempts < max_attempts

\* lines 223-225: the sleep ends; the loop goes round again, or range(20) is
\* exhausted and TimeoutError is raised to execute_code.
Sleep ==
    /\ pc = "sleep"
    /\ UNCHANGED shared
    /\ UNCHANGED others
    /\ io' = "none"
    /\ UNCHANGED posts
    /\ IF MoreAttempts
       THEN /\ pc' = "poll"
            /\ raised' = "none"
            /\ polled' = NoInt
            /\ UNCHANGED <<test_cases, idx, token, attempts, status,
                           results, compilation_error, total_runtime,
                           total_memory, successful_runs, response,
                           open_handles, ce_assigned>>
       ELSE /\ Caught("TimeoutError", TimeoutText)
            /\ open_handles' = open_handles \ {token[1]}

\* lines 318-322
StdoutPresent(p) == Truthy(p.stdout) /\ Truthy(Strip(p.stdout))

ActualOutput(p) ==
    IF StdoutPresent(p)
    THEN LET j == JsonLoads(Strip(p.stdout))
         IN  IF j.ok THEN j.val ELSE JStr(Strip(p.stdout))
    ELSE JNull

\* lines 325-327
PassedAlways(p, tc) == TRUE
Passed(p, tc) ==
    StdoutPresent(p) /\ _compare_outputs(p.stdout, tc.expected_output)

\* lines 329-332
FinalStatusKept(p, tc, st) == st

FinalStatus(p, tc, st) ==
    IF StdoutPresent(p)
    THEN IF Passed(p, tc) THEN "accepted" ELSE "wrong_answer"
    ELSE st

\* lines 335-336
ErrorMessage(p, tc) ==
    IF ~Passed(p, tc) /\ Truthy(p.stderr) /\ Truthy(Strip(p.stderr))
    THEN p.stderr
    ELSE None

\* lines 293-295
CompilationErrorText(p) ==
    PyOr(p.compile_output, PyOr(p.stderr, CompilationFailedText))

\* lines 297-308: one result for each tc in request.test_cases
CompilationErrorResultsRest(msg) ==
    [i \in 1..(Len(test_cases) - idx) |->
        CompilationErrorResult(test_cases[idx + i], msg)]

CompilationErrorResults(msg) ==
    [i \in 1..Len(test_cases) |-> CompilationErrorResult(test_cases[i], msg)]

\* line 309: break
BreakMissing == NextIteration
Break ==
    /\ pc' = "return"
    /\ UNCHANGED <<idx, token, attempts, polled, status>>

\* lines 312-363: the result of a test case that ran
EvaluatedResult(p, tc, st) ==
    TestCaseResult(tc, ActualOutput(p), Passed(p, tc),
        IF Truthy(p.time) THEN SomeInt(FloatTimes1000(p.time).val) ELSE NoInt,
        IF p.memory # NoInt /\ p.memory[1] # 0 THEN p.memory ELSE NoInt,
        FinalStatus(p, tc, st), ErrorMessage(p, tc), p.stdout, p.stderr)

\* lines 288-377: the result the loop body appends for its own test case,
\* given the status id and the other fields of the result polled
LoopBodyResult(p, tc, id) ==
    IF _parse_status(id) = "compilation_error"
    THEN CompilationErrorResult(tc, CompilationErrorText(p))
    ELSE IF Truthy(p.time) /\ ~FloatTimes1000(p.time).ok
    THEN InternalErrorResult(tc, ValueErrorText)
    ELSE EvaluatedResult(p, tc, _parse_status(id))

\* lines 292-363 on the result the poll returned, whose other fields are p
Evaluate ==
    /\ pc = "evaluate"
    /\ UNCHANGED shared
    /\ UNCHANGED others
    /\ io' = "none"
    /\ UNCHANGED <<posts, open_handles>>
    /\ \E p \in Payloads :
        LET tc == test_cases[idx]
            hasTime == Truthy(p.time)
            ms == FloatTimes1000(p.time)
            hasMemory == p.memory # NoInt /\ p.memory[1] # 0
        IN  IF status = "compilation_error"
            THEN /\ compilation_error' = CompilationErrorText(p)
                 /\ ce_assigned' = ce_assigned + 1
                 /\ results' = results \o CompilationErrorResults(CompilationErrorText(p))
                 /\ Break
                 /\ raised' = "none"
                 /\ UNCHANGED <<test_cases, total_runtime, total_memory,
                                successful_runs, response>>
            ELSE IF hasTime /\ ~ms.ok
            THEN Caught("ValueError", ValueErrorText)
            ELSE /\ results' = Append(results, EvaluatedResult(p, tc, status))
                 /\ total_runtime' = IF hasTime THEN total_runtime + ms.val
                                     ELSE total_runtime
                 /\ successful_runs' = IF hasTime THEN successful_runs + 1
                                       ELSE successful_runs
                 /\ total_memory' = IF hasMemory THEN total_memory + p.memory[1]
                                    ELSE total_memory
                 /\ raised' = "none"
                 /\ NextIteration
                 /\ UNCHANGED <<test_cases, compilation_error, response, ce_assigned>>

\* sum(1 for r in results if r.passed)
RECURSIVE PassedCountAccepted(_)
PassedCountAccepted(rs) ==
    IF rs = <<>> THEN 0
    ELSE (IF Head(rs).status = "accepted" THEN 1 ELSE 0)
            + PassedCountAccepted(Tail(rs))

RECURSIVE PassedCount(_)
PassedCount(rs) ==
    IF rs = <<>> THEN 0
    ELSE (IF Head(rs).passed THEN 1 ELSE 0) + PassedCount(Tail(rs))

\* line 381
AvgRuntimeMsOverResults ==
    IF Len(results) > 0 THEN SomeInt(total_runtime \div Len(results))
    ELSE NoInt

AvgRuntimeMs ==
    IF successful_runs > 0 THEN SomeInt(total_runtime \div successful_runs)
    ELSE NoInt

\* line 382
AvgMemoryKb ==
    IF successful_runs > 0 THEN SomeInt(total_memory \div successful_runs)
    ELSE NoInt

\* lines 380-393
CodeExecutionResponse ==
    [total_test_cases |-> Len(test_cases),
     passed_test_cases |-> PassedCount(results),
     results |-> results,
     overall_passed |-> PassedCount(results) = Len(test_cases),
     avg_runtime_ms |-> AvgRuntimeMs,
     avg_memory_kb |-> AvgMemoryKb,
     compilation_error |-> compilation_error]

Return ==
    /\ pc = "return"
    /\ UNCHANGED shared
    /\ UNCHANGED others
    /\ response' = <<CodeExecutionResponse>>
    /\ pc' = "done"
    /\ io' = "none"
    /\ raised' = "none"
    /\ UNCHANGED <<test_cases, idx, token, attempts, polled, status, results,
                   compilation_error, total_runtime, total_memory,
                   successful_runs, posts, open_handles, ce_assigned>>

Next ==
    \/ PrepareCode
    \/ SubmitCode
    \/ Poll
    \/ Sleep
    \/ Evaluate
    \/ Return

Spec == Init /\ [][Next]_vars

\* The event loop resumes the coroutine whenever the await it is suspended
\* at has completed: httpx.AsyncClient() (lines 192, 208) ends a POST or a
\* GET that gets no answer with its default timeout, and the sleep of line
\* 223 lasts 0.5 s; so the step that is enabled is eventually taken.
FairSpec == Init /\ [][Next]_vars /\ WF_vars(Next)

\* ------------------------------------------------- two requests at once
\* The route handler awaits judge0_service.execute_code(request) on the one
\* module-level instance (router.py lines 20 and 38), so two requests are two
\* coroutines of one event loop.  The variables of `frame` are the locals
\* of the coroutine that is running; `parked` holds the locals of the other
\* one.  Control changes hands only where a coroutine awaits: the POST
\* (line 193), the GET (line 211), the sleep (line 223), or its end.

\* the locals of the running coroutine
Frame ==
    [test_cases |-> test_cases, pc |-> pc, idx |-> idx, token |-> token,
     attempts |-> attempts, polled |-> polled, status |-> status,
     results |-> results, compilation_error |-> compilation_error,
     total_runtime |-> total_runtime, total_memory |-> total_memory,
     successful_runs |-> successful_runs, response |-> response,
     posts |-> posts, open_handles |-> open_handles, io |-> io,
     raised |-> raised, ce_assigned |-> ce_assigned]

\* a coroutine is resumed with the locals it was suspended with
ResumeSharingTotals(f) ==
    /\ test_cases' = f.test_cases
    /\ pc' = f.pc
    /\ idx' = f.idx
    /\ token' = f.token
    /\ attempts' = f.attempts
    /\ polled' = f.polled
    /\ status' = f.status
    /\ results' = f.results
    /\ compilation_error' = f.compilation_error
    /\ response' = f.response
    /\ posts' = f.posts
    /\ open_handles' = f.open_handles
    /\ io' = f.io
    /\ raised' = f.raised
    /\ ce_assigned' = f.ce_assigned
    /\ UNCHANGED <<total_runtime, total_memory, successful_runs>>

Resume(f) ==
    /\ test_cases' = f.test_cases
    /\ pc' = f.pc
    /\ idx' = f.idx
    /\ token' = f.token
    /\ attempts' = f.attempts
    /\ polled' = f.polled
    /\ status' = f.status
    /\ results' = f.results
    /\ compilation_error' = f.compilation_error
    /\ total_runtime' = f.total_runtime
    /\ total_memory' = f.total_memory
    /\ successful_runs' = f.successful_runs
    /\ response' = f.response
    /\ posts' = f.posts
    /\ open_handles' = f.open_handles
    /\ io' = f.io
    /\ raised' = f.raised
    /\ ce_assigned' = f.ce_assigned

\* where execute_code awaits, or has returned
Awaiting == pc \in {"submit", "poll", "sleep", "done"}

\* the event loop suspends the running coroutine and resumes the other one
Switch ==
    /\ parked # <<>>
    /\ Awaiting
    /\ parked[1].pc # "done"
    /\ cur' = 3 - cur
    /\ parked' = <<Frame>>
    /\ Resume(parked[1])
    /\ UNCHANGED <<shared, call, ret>>

\* request p of the two: one test case, a different one for each
ConcRequest(p) == <<CHOOSE tc \in TestCaseInputs : tc.order_index = p - 1>>

ConcInit ==
    /\ SharedInit
    /\ cur = 1
    /\ parked = <<InitialFrame(ConcRequest(2))>>
    /\ call = [fn |-> "none"]
    /\ ret = <<>>
    /\ Starts(InitialFrame(ConcRequest(1)))

ConcNext ==
    \/ PrepareCode
    \/ SubmitCode
    \/ Poll
    \/ Sleep
    \/ Evaluate
    \/ Return
    \/ Switch

ConcSpec == ConcInit /\ [][ConcNext]_vars

\* ---------------------------------------------------------- code_generator
\* Generated text is kept as the sequence of its parts: ("class", T) a helper
\* class, ("function", f) a conversion routine, ("parse", name,
\* how) the extraction of one argument, ("call", function, arguments),
\* ("emit", how) the serialisation of the result; the user's code is a
\* sequence of parts of its own.  The empty string is the empty sequence.

\* Most arguments a generated signature has.
MaxArgs == 1

\* keys of TYPE_MAPPINGS
TypeTokens ==
    {"int", "int[]", "string", "string[]", "boolean", "ListNode", "TreeNode", "void"}

\* TYPE_MAPPINGS[t] in the order python, javascript, java, cpp
TypeSpellings(t) ==
    CASE t = "int" -> <<"int", "number", "int", "int">>
      [] t = "int[]" -> <<"List[int]", "number[]", "int[]", "vector<int>">>
      [] t = "string" -> <<"str", "string", "String", "string">>
      [] t = "string[]" -> <<"List[str]", "string[]", "String[]", "vector<string>">>
      [] t = "boolean" -> <<"bool", "boolean", "boolean", "bool">>
      [] t = "ListNode" -> <<"Optional[ListNode]", "ListNode", "ListNode", "ListNode*">>
      [] t = "TreeNode" -> <<"Optional[TreeNode]", "TreeNode", "TreeNode", "TreeNode*">>
      [] t = "void" -> <<"None", "void", "void", "void">>

LanguageColumn(l) ==
    CASE l = "python" -> 1 [] l = "javascript" -> 2 [] l = "java" -> 3 [] l = "cpp" -> 4

\* TYPE_MAPPINGS.get(t, {}).get(l, t)
MapType(t, l) == IF t \in TypeTokens THEN TypeSpellings(t)[LanguageColumn(l)] ELSE t

\* a function_signature dict: `keys` are the keys it has
SignatureKeys == {"function_name", "arguments", "return_type"}
ArgName(i) == <<"arg", i>>
Signature(types, rt) ==
    [keys |-> SignatureKeys,
     function_name |-> "solve",
     arguments |-> [i \in 1..Len(types) |-> [name |-> ArgName(i), type |-> types[i]]],
     return_type |-> rt]

\* the dict {}
EmptySignature ==
    [keys |-> {}, function_name |-> "", arguments |-> <<>>, return_type |-> ""]

\* type tokens a signature may carry: the vocabulary and one token outside it
SignatureTypes == TypeTokens \cup {"float"}

Signatures ==
    {Signature(ts, rt) : ts \in SeqsUpTo(SignatureTypes, MaxArgs), rt \in SignatureTypes}

\* the user's code: "", or a Solution class
UserCodes == {<<>>, <<<<"class", "Solution">>>>}

\* languages a caller may pass: LanguageEnum, and a value outside it
CallerLanguages == Languages \cup {"ruby"}

\* json.dumps(input_data)
JsonDumps(input_data) == <<"json", input_data>>

\* function_signature[k] raises KeyError for the first key that is missing
RECURSIVE MissingKey(_, _)
MissingKey(sig, wanted) ==
    IF wanted = <<>> THEN ""
    ELSE IF Head(wanted) \notin sig.keys THEN Head(wanted)
    ELSE MissingKey(sig, Tail(wanted))

needs_listnode(sig) ==
    \/ \E i \in 1..Len(sig.arguments) : sig.arguments[i].type = "ListNode"
    \/ sig.return_type = "ListNode"

needs_treenode_args_only(sig) ==
    \E i \in 1..Len(sig.arguments) : sig.arguments[i].type = "TreeNode"
needs_treenode(sig) ==
    \/ \E i \in 1..Len(sig.arguments) : sig.arguments[i].type = "TreeNode"
    \/ sig.return_type = "TreeNode"

\* helper_code / helper_classes
HelperClasses(sig) ==
    (IF needs_listnode(sig) THEN <<<<"class", "ListNode">>>> ELSE <<>>)
        \o (IF needs_treenode(sig) THEN <<<<"class", "TreeNode">>>> ELSE <<>>)

\* conversion_functions / helper_methods
ConversionFunctions(sig) ==
    (IF needs_listnode(sig)
     THEN << <<"function", "array_to_listnode">>, <<"function", "listnode_to_array">> >>
     ELSE <<>>)
        \o (IF needs_treenode(sig)
            THEN << <<"function", "array_to_treenode">>, <<"function", "treenode_to_array">> >>
            ELSE <<>>)

ArgNames(sig) == [i \in 1..Len(sig.arguments) |-> sig.arguments[i].name]

\* python 216-229, javascript 381-400: every argument is extracted
InlineArgConversions(sig) ==
    [i \in 1..Len(sig.arguments) |->
        <<"parse", sig.arguments[i].name,
          CASE sig.arguments[i].type = "ListNode" -> "array_to_listnode"
            [] sig.arguments[i].type = "TreeNode" -> "array_to_treenode"
            [] OTHER -> "as decoded">>]

\* java 559-611, cpp 828-862: the if/elif chain has no else
ParsedTypes == TypeTokens \ {"void"}

RECURSIVE ArchiveArgParsing(_)
ArchiveArgParsing(args) ==
    IF args = <<>> THEN <<>>
    ELSE (IF Head(args).type \in ParsedTypes
          THEN <<<<"parse", Head(args).name, Head(args).type>>>>
          ELSE <<>>) \o ArchiveArgParsing(Tail(args))

\* result conversion
ResultConversion(sig) ==
    CASE sig.return_type = "ListNode" -> "listnode_to_array"
      [] sig.return_type = "TreeNode" -> "treenode_to_array"
      [] OTHER -> "as returned"

Artifact(code, stdin, additional_files) ==
    [source_code |-> code, stdin |-> stdin, additional_files |-> additional_files]

\* wrapper_code of the python and javascript generators
InlineProgram(user_code, sig) ==
    HelperClasses(sig) \o ConversionFunctions(sig) \o user_code
        \o InlineArgConversions(sig)
        \o << <<"call", sig.function_name, ArgNames(sig)>>,
              <<"emit", ResultConversion(sig)>> >>

_generate_python_wrapper(user_code, sig, input_data) ==
    LET missing == MissingKey(sig, <<"function_name", "arguments", "return_type">>)
    IN  IF missing # "" THEN Raised("KeyError", <<missing>>)
        ELSE Returned(Artifact(InlineProgram(user_code, sig), JsonDumps(input_data), None))

_generate_javascript_wrapper(user_code, sig, input_data) ==
    LET missing == MissingKey(sig, <<"function_name", "arguments", "return_type">>)
    IN  IF missing # "" THEN Raised("KeyError", <<missing>>)
        ELSE Returned(Artifact(InlineProgram(user_code, sig), JsonDumps(input_data), None))

\* Main.java / main.cpp
ArchiveProgram(user_code, sig, l) ==
    HelperClasses(sig) \o ConversionFunctions(sig) \o user_code
        \o ArchiveArgParsing(sig.arguments)
        \o << <<"call", sig.function_name, ArgNames(sig)>>,
              <<"result", MapType(sig.return_type, l)>>,
              <<"emit", ResultConversion(sig)>> >>

\* base64 of the zip: the primary source, compile, run and the library
Archive(primary, program, library) ==
    <<"zip", <<primary, program>>, <<"compile">>, <<"run">>, <<library>>>>

\* lib_readable: open(lib_path, 'rb') succeeds
_generate_java_wrapper(user_code, sig, input_data, lib_readable) ==
    LET missing == MissingKey(sig, <<"function_name", "arguments", "return_type">>)
    IN  IF missing # "" THEN Raised("KeyError", <<missing>>)
        ELSE IF ~lib_readable THEN Raised("FileNotFoundError", <<"gson-2.11.0.jar">>)
        ELSE Returned(Artifact(<<>>, JsonDumps(input_data),
                Archive("Main.java", ArchiveProgram(user_code, sig, "java"),
                        "gson-2.11.0.jar")))

_generate_cpp_wrapper(user_code, sig, input_data, lib_readable) ==
    LET missing == MissingKey(sig, <<"function_name", "arguments", "return_type">>)
    IN  IF missing # "" THEN Raised("KeyError", <<missing>>)
        ELSE IF ~lib_readable THEN Raised("FileNotFoundError", <<"json.hpp">>)
        ELSE Returned(Artifact(<<>>, JsonDumps(input_data),
                Archive("main.cpp", ArchiveProgram(user_code, sig, "cpp"),
                        "json.hpp")))

\* raise ValueError(f"Unsupported language: {language}")
UnsupportedLanguage(language) ==
    Raised("ValueError", <<"Unsupported language: ", language>>)

\* generate_wrapper, lines 103-112
generate_wrapper(language, user_code, sig, input_data, lib_readable) ==
    CASE language = "python" -> _generate_python_wrapper(user_code, sig, input_data)
      [] language = "javascript" ->
            _generate_javascript_wrapper(user_code, sig, input_data)
      [] language = "java" ->
            _generate_java_wrapper(user_code, sig, input_data, lib_readable)
      [] language = "cpp" ->
            _generate_cpp_wrapper(user_code, sig, input_data, lib_readable)
      [] OTHER -> UnsupportedLanguage(language)

\* the commented definitions, one per helper class that is needed
HelperDefinitionsUncommented(sig) == HelperClasses(sig)
HelperDefinitions(sig) ==
    (IF needs_listnode(sig) THEN <<<<"comment", "ListNode">>>> ELSE <<>>)
        \o (IF needs_treenode(sig) THEN <<<<"comment", "TreeNode">>>> ELSE <<>>)

\* get_helper_definitions, lines 945-981; the signature is read with .get
get_helper_definitions(language, sig) ==
    IF ~needs_listnode(sig) /\ ~needs_treenode(sig) THEN Returned(<<>>)
    ELSE IF language \in Languages THEN Returned(HelperDefinitions(sig))
    ELSE UnsupportedLanguage(language)

\* the skeleton: the parameters with their spelled types and the return type
\* (javascript spells no types and does not read return_type)
Template(sig, l) ==
    [function_name |-> sig.function_name,
     params |-> [i \in 1..Len(sig.arguments) |->
                    <<IF l = "javascript" THEN "" ELSE MapType(sig.arguments[i].type, l),
                      sig.arguments[i].name>>],
     returns |-> IF l = "javascript" THEN "" ELSE MapType(sig.return_type, l)]

\* get_template_code, lines 1112-1130, and the four _get_*_template
get_template_code(language, sig) ==
    IF language \notin Languages THEN UnsupportedLanguage(language)
    ELSE LET wanted == IF language = "javascript"
                       THEN <<"function_name", "arguments">>
                       ELSE <<"function_name", "arguments", "return_type">>
             missing == MissingKey(sig, wanted)
         IN  IF missing # "" THEN Raised("KeyError", <<missing>>)
             ELSE Returned(Template(sig, language))

\* ----------------------------------------------- _prepare_code, submit_code
\* Optional[Dict]: None is the empty tuple, a dict d is <<d>>
NoSignature == <<>>
SomeSignature(d) == <<d>>

\* `if function_signature:` -- None and {} are falsy
SignatureGiven(fs) == fs # NoSignature /\ fs[1].keys # {}

\* lines 84-161: the wrapper of the fallback branch
FallbackWrapper(language, source_code) ==
    << <<"fallback prelude", language>> >> \o source_code
        \o << <<"fallback driver", language>> >>

\* _prepare_code, lines 70-163
_prepare_code(language, source_code, input_data, function_signature, lib_readable) ==
    IF SignatureGiven(function_signature)
    THEN generate_wrapper(language, source_code, function_signature[1],
                          input_data, lib_readable)
    ELSE Returned(Artifact(FallbackWrapper(language, source_code),
                           JsonDumps(input_data), None))

\* x or y, on an Optional number
NumOr(x, y) == IF x # NoInt /\ x[1] # 0 THEN x[1] ELSE y

\* line 188
WallTimeLimitOfDefault(time_limit) == judge0_service.default_time_limit * 2
WallTimeLimit(time_limit) == NumOr(time_limit, judge0_service.default_time_limit) * 2

\* lines 179-190 and 196: the body of the POST; a field that is None is not
\* sent (model_dump(exclude_none=True))
Judge0SubmissionRequest(language, source_code, stdin, time_limit, memory_limit, additional_files) ==
    [source_code |-> source_code,
     language_id |-> LANGUAGE_IDS[language],
     stdin |-> stdin,
     cpu_time_limit |-> NumOr(time_limit, judge0_service.default_time_limit),
     memory_limit |-> NumOr(memory_limit, judge0_service.default_memory_limit),
     wall_time_limit |-> WallTimeLimit(time_limit),
     additional_files |-> additional_files]

\* ------------------------------ the helpers of the generated python program
\* The generated program holds these four functions as text
\* (code_generator.py lines 153-213); the sandbox runs them. Objects live in
\* a heap: a node is its position in the heap, None is 0.
MaxTreeLen == 5
MaxListLen == 3

NoNode == 0

\* class ListNode / class TreeNode, lines 133-150
ListNode(val) == [val |-> val, next |-> NoNode]
TreeNode(val) == [val |-> val, left |-> NoNode, right |-> NoNode]

\* array_to_listnode, lines 158-162: the loop over arr[1:]
RECURSIVE ListLoop(_, _, _)
ListLoop(rest, heap, current) ==
    IF rest = <<>> THEN heap
    ELSE LET fresh == Len(heap) + 1
         IN  ListLoop(Tail(rest),
                      Append([heap EXCEPT ![current].next = fresh],
                             ListNode(Head(rest))),
                      fresh)

\* array_to_listnode, lines 154-163
array_to_listnode_dropping_first(arr) ==
    IF Len(arr) <= 1 THEN [head |-> NoNode, heap |-> <<>>]
    ELSE [head |-> 1, heap |-> ListLoop(Tail(Tail(arr)), <<ListNode(arr[2])>>, 1)]
array_to_listnode(arr) ==
    IF arr = <<>> THEN [head |-> NoNode, heap |-> <<>>]
    ELSE [head |-> 1, heap |-> ListLoop(Tail(arr), <<ListNode(Head(arr))>>, 1)]

\* listnode_to_array, lines 168-171: `while current:`
RECURSIVE ListWalk(_, _, _)
ListWalk(heap, current, result) ==
    IF current = NoNode THEN result
    ELSE ListWalk(heap, heap[current].next, Append(result, heap[current].val))

\* listnode_to_array, lines 165-172
listnode_to_array(list) == ListWalk(list.heap, list.head, <<>>)

\* `arr[i] is not None`, lines 186 and 190
IsPresentTruthy(v) == v # JNull /\ v # JInt(0)
IsPresent(v) == v # JNull

\* array_to_treenode, lines 183-193: the loop; i counts from 0 as in the
\* code, so arr[i] of the code is arr[i + 1] here
RECURSIVE TreeLoop(_, _, _, _)
TreeLoop(arr, heap, queue, i) ==
    IF queue = <<>> \/ ~(i < Len(arr)) THEN heap
    ELSE LET node == Head(queue)
             hasLeft == i < Len(arr) /\ IsPresent(arr[i + 1])
             l == Len(heap) + 1
             heapL == IF hasLeft
                      THEN Append([heap EXCEPT ![node].left = l], TreeNode(arr[i + 1]))
                      ELSE heap
             queueL == IF hasLeft THEN Append(Tail(queue), l) ELSE Tail(queue)
             j == i + 1
             hasRight == j < Len(arr) /\ IsPresent(arr[j + 1])
             r == Len(heapL) + 1
             heapR == IF hasRight
                      THEN Append([heapL EXCEPT ![node].right = r], TreeNode(arr[j + 1]))
                      ELSE heapL
             queueR == IF hasRight THEN Append(queueL, r) ELSE queueL
         IN  TreeLoop(arr, heapR, queueR, j + 1)

\* array_to_treenode, lines 176-194
array_to_treenode(arr) ==
    IF arr = <<>> THEN [root |-> NoNode, heap |-> <<>>]
    ELSE [root |-> 1, heap |-> TreeLoop(arr, <<TreeNode(arr[1])>>, <<1>>, 1)]

\* treenode_to_array, lines 201-208: the loop over the queue
RECURSIVE TreeWalk(_, _, _)
TreeWalk(heap, queue, result) ==
    IF queue = <<>> THEN result
    ELSE LET node == Head(queue)
         IN  IF node # NoNode
             THEN TreeWalk(heap,
                           Tail(queue) \o <<heap[node].left, heap[node].right>>,
                           Append(result, heap[node].val))
             ELSE TreeWalk(heap, Tail(queue), Append(result, JNull))

\* lines 210-211: `while result and result[-1] is None: result.pop()`
RECURSIVE TrimTrailingNone(_)
TrimNothing(result) == result
TrimTrailingNone(result) ==
    IF result # <<>> /\ result[Len(result)] = JNull
    THEN TrimTrailingNone(SubSeq(result, 1, Len(result) - 1))
    ELSE result

\* treenode_to_array, lines 196-213
treenode_to_array(tree) ==
    IF tree.root = NoNode THEN <<>>
    ELSE TrimTrailingNone(TreeWalk(tree.heap, <<tree.root>>, <<>>))

\* ------------------------------------------- question service: run_code
\* The handler of POST /{question_id}/run (questions/router.py lines
\* 301-394).  A stored test case is its id and its order_index; the
\* execution service answers with one result per test case sent, each
\* carrying the order_index of its test case (service.py lines 297-307,
\* 350-361, 368-376).
MaxSelected == 2
TestCaseIds == {7, 8}
OrderIndexes == -1..MaxSelected

HTTPException(status_code, detail) == Raised("HTTPException", <<status_code, detail>>)

\* xs[i] of a python list: positions 0..n-1, negative positions from the end
ListIndex(xs, i) ==
    IF 0 <= i /\ i < Len(xs) THEN Returned(xs[i + 1])
    ELSE IF -Len(xs) <= i /\ i < 0 THEN Returned(xs[Len(xs) + i + 1])
    ELSE Raised("IndexError", <<"list index out of range">>)

\* lines 328-334: what is sent for each test case
ExecutionTestCases(tcs) ==
    [i \in 1..Len(tcs) |-> [order_index |-> tcs[i].order_index]]

\* the answer of the execution service for the test cases sent
ExecutionResults(sent) ==
    [i \in 1..Len(sent) |-> [order_index |-> sent[i].order_index, position |-> i]]

\* lines 357-370: the loop that maps the results back
RECURSIVE MapResults(_, _, _)
MapResults(tcs, rest, mapped) ==
    IF rest = <<>> THEN Returned(mapped)
    ELSE LET tc == ListIndex(tcs, Head(rest).order_index)
         IN  IF tc.raised THEN tc
             ELSE MapResults(tcs, Tail(rest),
                     Append(mapped, [test_case_id |-> tc.value.id,
                                      position |-> Head(rest).position]))

\* run_code, lines 301-394
run_code(question_found, language_templated, tcs, backend_answers) ==
    IF ~question_found THEN HTTPException(404, "Question not found")
    ELSE IF ~language_templated THEN HTTPException(400, "Language not supported")
    ELSE IF tcs = <<>> THEN HTTPException(400, "No test cases found")
    ELSE IF ~backend_answers THEN HTTPException(500, "Code execution failed")
    ELSE LET mapped == MapResults(tcs, ExecutionResults(ExecutionTestCases(tcs)), <<>>)
         IN  IF mapped.raised THEN HTTPException(500, "Code execution failed")
             ELSE Returned([total_test_cases |-> Len(tcs), results |-> mapped.value])

\* ------------------------------------------------- functions called alone
\* Each function below is applied to arguments drawn from bounded sets:
\* `call` holds the function and its arguments, `ret` what it produced.
\* No request is running while a function is called this way.
Idle ==
    /\ test_cases = <<>>
    /\ pc = "idle"
    /\ idx = 1
    /\ token = NoInt
    /\ attempts = 0
    /\ polled = NoInt
    /\ status = Unassigned
    /\ results = <<>>
    /\ compilation_error = None
    /\ total_runtime = 0
    /\ total_memory = 0
    /\ successful_runs = 0
    /\ response = <<>>
    /\ posts = <<>>
    /\ open_handles = {}
    /\ io = "none"
    /\ raised = "none"
    /\ ce_assigned = 0

frame ==
    <<test_cases, pc, idx, token, attempts, polled, status, results,
      compilation_error, total_runtime, total_memory, successful_runs,
      response, posts, open_handles, io, raised, ce_assigned>>

\* actual outputs: every string over CmpAlphabet up to MaxCmpLen characters,
\* and the documents of the unit tests
CmpAlphabet == {"[", "]", "0", "1", ",", " ", "n", "\""}
OutList01Compact == <<"[", "0", ",", "1", "]">>
OutNotJson == <<"n", "o", "t", " ", "j", "s", "o", "n">>

Actuals ==
    SeqsUpTo(CmpAlphabet, MaxCmpLen)
        \cup {OutList01, OutList01Compact, OutNotJson, Append(OutNotJson, "\n")}

\* expected values
Expecteds ==
    { JList(<<JInt(0), JInt(1)>>), JList(<<JInt(1), JInt(0)>>), JList(<<>>),
      JInt(1), JNull, JStr(OutNotJson), JStr(<<"n", " ">>), JStr(<<"1">>) }

CompareCalls ==
    [fn : {"_compare_outputs"}, actual : Actuals, expected : Expecteds]

Call_compare_outputs ==
    /\ call.fn = "_compare_outputs"
    /\ ret = <<>>
    /\ ret' = <<_compare_outputs_outcome(call.actual, call.expected)>>
    /\ UNCHANGED <<frame, shared, cur, parked, call>>

\* limits a request may carry: none, zero, a positive value
TimeLimits == {NoInt, SomeInt(0), SomeInt(2)}
MemoryLimits == {NoInt, SomeInt(0), SomeInt(64000)}

\* execute_code lines 269-285 for one test case: _prepare_code, then
\* submit_code with what it returned and the limits of the request
SubmitCalls ==
    [fn : {"submit_code"},
     language : Languages,
     source_code : UserCodes,
     input_data : {<<"nums">>},
     function_signature :
        {NoSignature, SomeSignature(EmptySignature)}
            \cup {SomeSignature(d) : d \in Signatures},
     time_limit : TimeLimits,
     memory_limit : MemoryLimits,
     lib_readable : BOOLEAN]

Call_prepare_code ==
    /\ call.fn = "submit_code"
    /\ ret = <<>>
    /\ ret' = <<_prepare_code(call.language, call.source_code, call.input_data,
                              call.function_signature, call.lib_readable)>>
    /\ UNCHANGED <<frame, shared, cur, parked, call>>

Call_submit_code ==
    /\ call.fn = "submit_code"
    /\ Len(ret) = 1
    /\ ~ret[1].raised
    /\ ret' = Append(ret,
            Judge0SubmissionRequest(call.language, ret[1].value.source_code,
                ret[1].value.stdin, call.time_limit, call.memory_limit,
                ret[1].value.additional_files))
    /\ UNCHANGED <<frame, shared, cur, parked, call>>

\* the three entry points of the generator
GeneratorCalls ==
    [fn : {"generate_wrapper", "get_template_code", "get_helper_definitions"},
     language : CallerLanguages,
     user_code : UserCodes,
     input_data : {<<"nums">>},
     function_signature : Signatures \cup {EmptySignature},
     lib_readable : BOOLEAN]

Call_generate_wrapper ==
    /\ call.fn = "generate_wrapper"
    /\ ret = <<>>
    /\ ret' = <<generate_wrapper(call.language, call.user_code,
                    call.function_signature, call.input_data, call.lib_readable)>>
    /\ UNCHANGED <<frame, shared, cur, parked, call>>

Call_get_template_code ==
    /\ call.fn = "get_template_code"
    /\ ret = <<>>
    /\ ret' = <<get_template_code(call.language, call.function_signature)>>
    /\ UNCHANGED <<frame, shared, cur, parked, call>>

Call_get_helper_definitions ==
    /\ call.fn = "get_helper_definitions"
    /\ ret = <<>>
    /\ ret' = <<get_helper_definitions(call.language, call.function_signature)>>
    /\ UNCHANGED <<frame, shared, cur, parked, call>>

\* arrays handed to the helpers: a slot is a small integer or null
TreeValues == {JNull, JInt(0), JInt(1), JInt(2)}
TreeArrays == SeqsUpTo(TreeValues, MaxTreeLen)
ListArrays == SeqsUpTo({JInt(0), JInt(1), JInt(2)}, MaxListLen)

HelperCalls ==
    [fn : {"array_to_treenode"}, arr : TreeArrays]
        \cup [fn : {"array_to_listnode"}, arr : ListArrays]

Call_array_to_treenode ==
    /\ call.fn = "array_to_treenode"
    /\ ret = <<>>
    /\ ret' = <<array_to_treenode(call.arr)>>
    /\ UNCHANGED <<frame, shared, cur, parked, call>>

\* the tree that array_to_treenode built, written back as an array
Call_treenode_to_array ==
    /\ call.fn = "array_to_treenode"
    /\ Len(ret) = 1
    /\ ret' = Append(ret, treenode_to_array(ret[1]))
    /\ UNCHANGED <<frame, shared, cur, parked, call>>

Call_array_to_listnode ==
    /\ call.fn = "array_to_listnode"
    /\ ret = <<>>
    /\ ret' = <<array_to_listnode(call.arr)>>
    /\ UNCHANGED <<frame, shared, cur, parked, call>>

Call_listnode_to_array ==
    /\ call.fn = "array_to_listnode"
    /\ Len(ret) = 1
    /\ ret' = Append(ret, listnode_to_array(ret[1]))
    /\ UNCHANGED <<frame, shared, cur, parked, call>>

\* the test cases run_code selected: stored rows with distinct ids
SelectedTestCases ==
    {tcs \in SeqsUpTo([id : TestCaseIds, order_index : OrderIndexes], MaxSelected) :
        \A i, j \in 1..Len(tcs) : i # j => tcs[i].id # tcs[j].id}

RunCodeCalls ==
    [fn : {"run_code"}, question_found : BOOLEAN, language_templated : BOOLEAN,
     test_cases : SelectedTestCases, backend_answers : BOOLEAN]

Call_run_code ==
    /\ call.fn = "run_code"
    /\ ret = <<>>
    /\ ret' = <<run_code(call.question_found, call.language_templated,
                         call.test_cases, call.backend_answers)>>
    /\ UNCHANGED <<frame, shared, cur, parked, call>>

\* the loop body on one polled result: the payloads and test cases of the
\* requests, and a function that returns nothing (stdout null, expected null)
OutNull == <<"n", "u", "l", "l", "\n">>

EvaluateCalls ==
    [fn : {"evaluate"},
     payload : Payloads \cup {Payload(OutNull, None, None, <<"0", ".", "0", "1">>, SomeInt(3456))},
     test_case : TestCaseInputs \cup {[input_data |-> <<"nums">>,
                                       expected_output |-> JNull,
                                       order_index |-> 2]},
     status_id : StatusIds]

Call_evaluate ==
    /\ call.fn = "evaluate"
    /\ ret = <<>>
    /\ ret' = <<LoopBodyResult(call.payload, call.test_case, call.status_id)>>
    /\ UNCHANGED <<frame, shared, cur, parked, call>>

CallInit ==
    /\ SharedInit
    /\ Idle
    /\ cur = 1
    /\ parked = <<>>
    /\ ret = <<>>
    /\ \/ call \in CompareCalls
       \/ call \in SubmitCalls
       \/ call \in GeneratorCalls
       \/ call \in HelperCalls
       \/ call \in RunCodeCalls
       \/ call \in EvaluateCalls

CallNext ==
    \/ Call_compare_outputs
    \/ Call_prepare_code
    \/ Call_submit_code
    \/ Call_generate_wrapper
    \/ Call_get_template_code
    \/ Call_get_helper_definitions
    \/ Call_array_to_treenode
    \/ Call_treenode_to_array
    \/ Call_array_to_listnode
    \/ Call_listnode_to_array
    \/ Call_run_code
    \/ Call_evaluate

CallSpec == CallInit /\ [][CallNext]_vars

\* ================================================================ claims

\* C1: in every response, if compilation_error is set then every entry of
\* results has status compilation_error and passed = false, whichever test
\* case the compilation error was reported for.  (Stated as claimed; the
\* results recorded before a later compilation error keep their status.)
C1_Claim ==
    (pc = "done" /\ response[1].compilation_error # None) =>
        \A i \in 1..Len(response[1].results) :
            /\ response[1].results[i].status = "compilation_error"
            /\ response[1].results[i].passed = FALSE

\* C2: when the result polled for the first test case maps to
\* compilation_error, the response holds exactly one result per requested
\* test case, in request order, each compilation_error / not passed / no
\* actual output, with overall_passed false and passed_test_cases 0.
C2_FirstCaseCompilationError ==
    (pc = "done" /\ compilation_error # None /\ posts = <<1>>) =>
        LET r == response[1]
        IN  /\ Len(r.results) = Len(test_cases)
            /\ \A i \in 1..Len(test_cases) :
                /\ r.results[i].order_index = test_cases[i].order_index
                /\ r.results[i].status = "compilation_error"
                /\ r.results[i].passed = FALSE
                /\ r.results[i].actual_output = JNull
            /\ r.overall_passed = FALSE
            /\ r.passed_test_cases = 0

C2_Witness ==
    /\ pc = "done"
    /\ compilation_error # None
    /\ posts = <<1>>
    /\ Len(test_cases) = MaxTests
    /\ Len(response[1].results) = MaxTests

\* C3: once a polled result that maps to compilation_error has been
\* observed, no step of the request issues a POST or a GET, and
\* compilation_error is assigned at most once.
C3_NoCallsAfterCompilationError ==
    [][ /\ (status = "compilation_error" \/ compilation_error # None) =>
            (io' = "none" /\ posts' = posts)
        /\ compilation_error # None =>
            (compilation_error' = compilation_error /\ ce_assigned' = ce_assigned)
        /\ ce_assigned' <= 1 ]_vars

C3_Witness ==
    /\ pc = "done"
    /\ compilation_error # None
    /\ ce_assigned = 1
    /\ Len(posts) < Len(test_cases)

\* C4: the response has exactly one result per requested test case, in
\* request order: len(results) = total_test_cases = len(test_cases) and
\* results[i].order_index is the i-th requested order_index.  (Stated as
\* claimed; a compilation error after the first test case appends a full
\* set of results to the ones already recorded.)
C4_Claim ==
    pc = "done" =>
        LET r == response[1]
        IN  /\ Len(r.results) = r.total_test_cases
            /\ r.total_test_cases = Len(test_cases)
            /\ \A i \in 1..Len(r.results) :
                i <= Len(test_cases) /\
                r.results[i].order_index = test_cases[i].order_index

\* C5: a step in which preparing, submitting, polling or evaluating test
\* case i raises appends exactly one result, for test case i, with status
\* internal_error and passed = false, leaves the accumulators and
\* compilation_error alone, and moves the loop to test case i+1 (or to the
\* end of the loop after the last one).
C5_ExceptionIsLocal ==
    [][ raised' # "none" =>
            /\ Len(results') = Len(results) + 1
            /\ SubSeq(results', 1, Len(results)) = results
            /\ results'[Len(results')].order_index = test_cases[idx].order_index
            /\ results'[Len(results')].status = "internal_error"
            /\ results'[Len(results')].passed = FALSE
            /\ idx' = idx + 1
            /\ pc' = IF idx < Len(test_cases) THEN "prepare" ELSE "return"
            /\ compilation_error' = compilation_error
            /\ total_runtime' = total_runtime
            /\ total_memory' = total_memory
            /\ successful_runs' = successful_runs ]_vars

C5_Witness ==
    /\ raised = "TimeoutError"
    /\ pc = "prepare"
    /\ idx = 2
    /\ Len(results) = 1
    /\ results[1].status = "internal_error"

\* C6: test cases are handled one after the other: a POST is issued only
\* when no handle is outstanding, at most one handle is outstanding at any
\* time, and no test case is POSTed twice (each POST is for a later test
\* case than the one before).
C6_Sequential ==
    [][ /\ posts' # posts => open_handles = {}
        /\ Cardinality(open_handles') <= 1
        /\ \A i \in 1..Len(posts') : \A j \in 1..Len(posts') :
              i < j => posts'[i] < posts'[j] ]_vars

C6_Witness ==
    /\ posts = <<1, 2>>
    /\ Len(results) >= 1
    /\ results[1].error_message = TimeoutText
    /\ open_handles = {2}

\* C7: a GET whose result has a status id other than 1 and 2 ends the poll
\* loop with that result; a result with status id 1 or 2 is never returned;
\* after the return no further GET is issued for the handle.
C7_ReturnsFirstTerminal ==
    [][ /\ (io' = "GET" /\ raised' = "none") =>
              IF polled'[1] \in {1, 2}
              THEN pc' = "sleep" /\ open_handles' = open_handles
              ELSE pc' = "evaluate" /\ open_handles' = {}
        /\ pc' = "evaluate" => (polled' # NoInt /\ polled'[1] \notin {1, 2})
        /\ pc = "evaluate" => (io' # "GET" /\ posts' = posts) ]_vars

C7_Witness ==
    /\ pc = "evaluate"
    /\ polled = SomeInt(3)
    /\ idx = 2

\* C8: at most max_attempts (20) GETs are issued for one handle; when all
\* of them report queued or running, TimeoutError is raised and no result
\* is returned; before the bound the loop always polls again.
C8_BoundedPolling ==
    [][ /\ io' = "GET" => attempts < max_attempts
        /\ attempts' <= max_attempts
        /\ raised' = "TimeoutError" =>
              (pc = "sleep" /\ attempts = max_attempts /\ polled[1] \in {1, 2}
               /\ pc' # "evaluate")
        /\ (pc = "sleep" /\ attempts < max_attempts) =>
              (pc' = "poll" /\ raised' = "none")
        /\ (pc = "sleep" /\ attempts = max_attempts) =>
              raised' = "TimeoutError" ]_vars

C8_Witness ==
    /\ raised = "TimeoutError"
    /\ results[Len(results)].error_message = TimeoutText

\* C9 as claimed: the status recorded for a test case whose poll returned
\* a terminal result is mapStatus of the result's status id, whatever its
\* stdout.
C9_Claim ==
    [][ (pc = "evaluate" /\ raised' = "none") =>
            results'[Len(results')].status = _parse_status(polled[1]) ]_vars

\* C9 amended: the recorded status is mapStatus of the status id when that
\* is compilation_error or when stdout is null, empty or whitespace only;
\* otherwise it is accepted when the output comparison passed and
\* wrong_answer when it did not.
C9_StatusFromIdOrComparison ==
    [][ (pc = "evaluate" /\ raised' = "none") =>
            LET r == results'[Len(results')]
            IN  IF \/ _parse_status(polled[1]) = "compilation_error"
                   \/ ~Truthy(r.stdout)
                   \/ ~Truthy(Strip(r.stdout))
                THEN r.status = _parse_status(polled[1])
                ELSE r.status = IF r.passed THEN "accepted" ELSE "wrong_answer" ]_vars

C9_Witness ==
    /\ pc = "prepare"
    /\ idx = 2
    /\ results[1].status = "time_limit_exceeded"
    /\ results[1].stdout = None
    /\ results[1].runtime_ms = SomeInt(10)

\* C10: _parse_status is total over the status ids: 3 accepted, 4
\* wrong_answer, 5 time_limit_exceeded, 6 compilation_error, 7..12
\* runtime_error, everything else (13, 14, 1, 2, ids outside 1..14)
\* internal_error; the status execute_code derives from a returned result
\* is that value.
C10_Expected(id) ==
    IF id \in 7..12 THEN "runtime_error"
    ELSE IF id \in 3..6
    THEN <<"accepted", "wrong_answer", "time_limit_exceeded",
           "compilation_error">>[id - 2]
    ELSE "internal_error"

C10_ParseStatusTable ==
    /\ \A id \in StatusIds :
          _parse_status(id) \in ExecutionStatus /\ _parse_status(id) = C10_Expected(id)
    /\ status # Unassigned => status = C10_Expected(polled[1])

C10_Witness ==
    /\ pc = "evaluate"
    /\ polled = SomeInt(MaxStatusId)
    /\ status = "internal_error"

RECURSIVE ReportedSum(_, _)
ReportedSum(rs, f) ==
    IF rs = <<>> THEN 0
    ELSE (IF Head(rs)[f] # NoInt THEN Head(rs)[f][1] ELSE 0)
            + ReportedSum(Tail(rs), f)

RECURSIVE ReportedCount(_, _)
ReportedCount(rs, f) ==
    IF rs = <<>> THEN 0
    ELSE (IF Head(rs)[f] # NoInt THEN 1 ELSE 0) + ReportedCount(Tail(rs), f)

ReportedAverage(rs, f) ==
    IF ReportedCount(rs, f) = 0 THEN NoInt
    ELSE SomeInt(ReportedSum(rs, f) \div ReportedCount(rs, f))

\* C12: avg_memory_kb of the response is the truncated quotient of the sum
\* of memory_kb over the test cases that reported a memory value by the
\* number of those test cases, and null exactly when no test case reported
\* one.  (Stated as claimed; the code divides by the number of test cases
\* that reported a time.)
C12_Claim ==
    pc = "done" =>
        response[1].avg_memory_kb = ReportedAverage(response[1].results, "memory_kb")

\* C13: avg_runtime_ms of the response is the truncated quotient of the sum
\* of runtime_ms over the test cases that reported a time by the number of
\* those test cases (a test case that ended in an exception reports none),
\* and null exactly when no test case reported a time.
C13_AvgRuntime ==
    pc = "done" =>
        /\ response[1].avg_runtime_ms
                = ReportedAverage(response[1].results, "runtime_ms")
        /\ (response[1].avg_runtime_ms = NoInt)
                <=> (\A i \in 1..Len(results) : results[i].runtime_ms = NoInt)

\* one test case ended in an exception, the other reported a time, and the
\* average is that time
C13_Witness ==
    /\ pc = "done"
    /\ \E i, j \in 1..Len(results) :
          /\ results[i].status = "internal_error"
          /\ results[i].runtime_ms = NoInt
          /\ results[j].runtime_ms # NoInt
          /\ results[j].runtime_ms[1] > 0
          /\ response[1].avg_runtime_ms = results[j].runtime_ms

\* the test cases that passed: the loop reached them (idx is the loop
\* position, left at the test case of a compilation error) and recorded a
\* passing result for them
C14_PassedCases ==
    {i \in 1..Len(test_cases) : i < idx /\ results[i].passed}

\* C14: passed_test_cases is the number of requested test cases that
\* passed, overall_passed holds exactly when every requested test case
\* passed, and overall_passed is false whenever compilation_error is set.
C14_PassedAndOverall ==
    pc = "done" =>
        /\ response[1].passed_test_cases = Cardinality(C14_PassedCases)
        /\ response[1].overall_passed <=> C14_PassedCases = 1..Len(test_cases)
        /\ response[1].compilation_error # None => ~response[1].overall_passed

\* the first test case passed and the second met a compilation error
C14_Witness ==
    /\ pc = "done"
    /\ Len(test_cases) = 2
    /\ response[1].compilation_error # None
    /\ response[1].passed_test_cases = 1
    /\ results[1].passed
    /\ ~response[1].overall_passed

\* C15: every submission posted by submit_code carries a wall_time_limit of
\* exactly twice its own cpu_time_limit, whether the CPU limit came from the
\* caller or from the configured default.
C15_WallTimeTwiceCpu ==
    (call.fn = "submit_code" /\ Len(ret) = 2) =>
        ret[2].wall_time_limit = 2 * ret[2].cpu_time_limit

\* a submission was posted with the caller's CPU limit, and its wall limit
\* is twice that
C15_Witness ==
    /\ call.fn = "submit_code"
    /\ Len(ret) = 2
    /\ call.time_limit = SomeInt(2)
    /\ ret[2].cpu_time_limit = 2
    /\ ret[2].wall_time_limit = 4

\* C16: the cpu_time_limit and memory_limit posted equal the values of the
\* request whenever the caller supplied them (any value, 0 included), and
\* the configured defaults only when the caller supplied none.  (Stated as
\* claimed; `or` replaces a supplied 0 by the default.)
C16_Claim ==
    (call.fn = "submit_code" /\ Len(ret) = 2) =>
        /\ ret[2].cpu_time_limit =
                IF call.time_limit # NoInt THEN call.time_limit[1]
                ELSE settings.default_time_limit
        /\ ret[2].memory_limit =
                IF call.memory_limit # NoInt THEN call.memory_limit[1]
                ELSE settings.default_memory_limit

\* C17: for every test case prepared and posted, exactly one of "source_code
\* is non-empty" and "an archive is present" holds, and the language alone
\* decides which: java and cpp (backend id 89) always carry an archive and
\* an empty source_code, python and javascript never carry an archive,
\* whatever the signature and whether or not one was supplied.  (Stated as
\* claimed; without a signature java and cpp are posted as inline source.)
C17_Claim ==
    (call.fn = "submit_code" /\ Len(ret) = 2) =>
        /\ (ret[2].source_code # <<>>) # (ret[2].additional_files # None)
        /\ call.language \in {"java", "cpp"} =>
                /\ ret[2].language_id = 89
                /\ ret[2].additional_files # None
                /\ ret[2].source_code = <<>>
        /\ call.language \in {"python", "javascript"} =>
                ret[2].additional_files = None

\* C18: generate_wrapper, get_template_code and get_helper_definitions,
\* called with a language outside python, javascript, java, cpp, fail with
\* an "Unsupported language" error for every signature, also one that
\* mentions neither ListNode nor TreeNode.  (Stated as claimed;
\* get_helper_definitions returns "" before it looks at the language.)
C18_Claim ==
    (/\ call.fn \in {"generate_wrapper", "get_template_code", "get_helper_definitions"}
     /\ call.language \notin Languages
     /\ ret # <<>>) =>
        /\ ret[1].raised
        /\ ret[1].error = <<"ValueError", <<"Unsupported language: ", call.language>>>>

\* C19: generate_wrapper fails, for each of the four languages, when an
\* argument type or the return type is not one of the eight type tokens; it
\* returns no artifact for such a signature.  (Stated as claimed; no
\* generator looks a type token up before it emits.)
C19_Claim ==
    (/\ call.fn = "generate_wrapper"
     /\ call.language \in Languages
     /\ ret # <<>>
     /\ \/ call.function_signature.return_type \notin TypeTokens
        \/ \E i \in 1..Len(call.function_signature.arguments) :
              call.function_signature.arguments[i].type \notin TypeTokens) =>
        ret[1].raised

\* what a finished request's response owes to its own request: one count per
\* own test case, results of own test cases only, and the counts and the
\* average taken over those results
C20_OwnResponse(f) ==
    f.pc = "done" =>
        LET r == f.response[1]
        IN  /\ r.total_test_cases = Len(f.test_cases)
            /\ r.results = f.results
            /\ Len(r.results) >= Len(f.test_cases)
            /\ \A i \in 1..Len(r.results) :
                  \E k \in 1..Len(f.test_cases) :
                      /\ r.results[i].input_data = f.test_cases[k].input_data
                      /\ r.results[i].expected_output = f.test_cases[k].expected_output
                      /\ r.results[i].order_index = f.test_cases[k].order_index
            /\ r.passed_test_cases = PassedCount(r.results)
            /\ r.overall_passed <=> (PassedCount(r.results) = Len(f.test_cases))
            /\ r.avg_runtime_ms = ReportedAverage(r.results, "runtime_ms")
            /\ r.compilation_error = f.compilation_error

RECURSIVE PresentAmong(_, _)
PresentAmong(arr, n) ==
    IF n = 0 THEN 0
    ELSE PresentAmong(arr, n - 1) + (IF arr[n] # JNull THEN 1 ELSE 0)

\* arr is the level-order encoding of a binary tree with explicit
\* missing-markers and no trailing missing-marker: the root is present, the
\* last slot is present, and the slots 2k and 2k+1 are the children of the
\* k-th present value, which stands before them
LevelOrderEncoding(arr) ==
    arr # <<>> =>
        /\ arr[1] # JNull
        /\ arr[Len(arr)] # JNull
        /\ \A i \in 2..Len(arr) :
              PresentAmong(arr, 2 * (i \div 2) - 1) >= i \div 2

\* C21: for every array that is the level-order encoding of a binary tree
\* with explicit missing-markers and no trailing missing-marker,
\* array_to_treenode followed by treenode_to_array returns the original
\* array unchanged.
C21_TreeRoundTrip ==
    (/\ call.fn = "array_to_treenode"
     /\ Len(ret) = 2
     /\ LevelOrderEncoding(call.arr)) =>
        ret[2] = call.arr

\* an encoding of full length with a missing-marker inside and a value 0
\* went through both functions
C21_Witness ==
    /\ call.fn = "array_to_treenode"
    /\ Len(ret) = 2
    /\ LevelOrderEncoding(call.arr)
    /\ Len(call.arr) = MaxTreeLen
    /\ \E i \in 1..Len(call.arr) : call.arr[i] = JNull
    /\ \E i \in 1..Len(call.arr) : call.arr[i] = JInt(0)

\* C22: treenode_to_array never returns an array whose last element is the
\* missing-marker, and it keeps every missing-marker that precedes a later
\* present value: the tree built from [1, null, 2, null, null] serializes
\* to [1, null, 2], and the empty tree serializes to the empty array.  The
\* array returned is what the queue walk wrote, up to its last present
\* value.
C22_TrailingMarkersTrimmed ==
    (call.fn = "array_to_treenode" /\ Len(ret) = 2) =>
        LET walked == IF ret[1].root = NoNode THEN <<>>
                      ELSE TreeWalk(ret[1].heap, <<ret[1].root>>, <<>>)
            out == ret[2]
        IN  /\ out # <<>> => out[Len(out)] # JNull
            /\ Len(out) <= Len(walked)
            /\ out = SubSeq(walked, 1, Len(out))
            /\ \A i \in (Len(out) + 1)..Len(walked) : walked[i] = JNull
            /\ call.arr = <<JInt(1), JNull, JInt(2), JNull, JNull>> =>
                  out = <<JInt(1), JNull, JInt(2)>>
            /\ ret[1].root = NoNode => out = <<>>

\* the tree built from [1, null, 2, null, null] was serialized
C22_Witness ==
    /\ call.fn = "array_to_treenode"
    /\ Len(ret) = 2
    /\ call.arr = <<JInt(1), JNull, JInt(2), JNull, JNull>>
    /\ ret[2] = <<JInt(1), JNull, JInt(2)>>

\* C23: for every finite array a of integers, array_to_listnode(a) followed
\* by listnode_to_array returns a unchanged, with element order preserved;
\* the empty array maps to a null head and a null head maps back to the
\* empty array.
C23_ListRoundTrip ==
    (call.fn = "array_to_listnode" /\ ret # <<>>) =>
        /\ (call.arr = <<>>) <=> (ret[1].head = NoNode)
        /\ Len(ret) = 2 => ret[2] = call.arr
        /\ (Len(ret) = 2 /\ ret[1].head = NoNode) => ret[2] = <<>>

\* an array of distinct integers that is not in ascending order came back
C23_Witness ==
    /\ call.fn = "array_to_listnode"
    /\ Len(ret) = 2
    /\ call.arr = <<JInt(2), JInt(0), JInt(1)>>
    /\ ret[2] = call.arr

\* the program text of an artifact: source_code, or Main.java / main.cpp of
\* the archive
GeneratedProgram(artifact) ==
    IF artifact.additional_files = None THEN artifact.source_code
    ELSE artifact.additional_files[2][2]

\* the parts of kind k in a text, by what they name
PartsOf(text, k) ==
    {text[i][2] : i \in {j \in 1..Len(text) : Len(text[j]) = 2 /\ text[j][1] = k}}

\* some argument type or the return type is T
RefersTo(sig, T) ==
    \/ sig.return_type = T
    \/ \E i \in 1..Len(sig.arguments) : sig.arguments[i].type = T

\* C24: for each of the four languages, the generated program contains the
\* ListNode type declaration and both list conversion routines if and only
\* if some argument type or the return type is ListNode, and contains the
\* TreeNode declaration and both tree conversion routines if and only if
\* some argument type or the return type is TreeNode; presence in either
\* location alone is enough.  (Declarations and routines are those the
\* generator emits around the user's code.)
C24_HelpersIffReferenced ==
    (/\ call.fn = "generate_wrapper"
     /\ call.language \in Languages
     /\ ret # <<>>
     /\ ~ret[1].raised) =>
        LET program == GeneratedProgram(ret[1].value)
            classes == PartsOf(program, "class") \ {"Solution"}
            routines == PartsOf(program, "function")
            sig == call.function_signature
        IN  /\ "ListNode" \in classes <=> RefersTo(sig, "ListNode")
            /\ "array_to_listnode" \in routines <=> RefersTo(sig, "ListNode")
            /\ "listnode_to_array" \in routines <=> RefersTo(sig, "ListNode")
            /\ "TreeNode" \in classes <=> RefersTo(sig, "TreeNode")
            /\ "array_to_treenode" \in routines <=> RefersTo(sig, "TreeNode")
            /\ "treenode_to_array" \in routines <=> RefersTo(sig, "TreeNode")

\* a java program for a signature whose only TreeNode is the return type
\* holds the TreeNode helpers and no ListNode helper
C24_Witness ==
    /\ call.fn = "generate_wrapper"
    /\ call.language = "java"
    /\ ret # <<>>
    /\ ~ret[1].raised
    /\ call.function_signature.return_type = "TreeNode"
    /\ \A i \in 1..Len(call.function_signature.arguments) :
          call.function_signature.arguments[i].type = "int"
    /\ call.function_signature.arguments # <<>>
    /\ PartsOf(GeneratedProgram(ret[1].value), "class") \ {"Solution"} = {"TreeNode"}
    /\ PartsOf(GeneratedProgram(ret[1].value), "function")
          = {"array_to_treenode", "treenode_to_array"}

C26_Claim ==
    (/\ call.fn = "run_code"
     /\ call.question_found
     /\ call.language_templated
     /\ call.backend_answers
     /\ call.test_cases # <<>>
     /\ ret # <<>>) =>
        /\ ~ret[1].raised
        /\ \A i \in 1..Len(ret[1].value.results) :
              LET r == ret[1].value.results[i]
              IN  \E k \in 1..Len(call.test_cases) :
                      /\ call.test_cases[k].id = r.test_case_id
                      /\ call.test_cases[k].order_index
                            = call.test_cases[r.position].order_index

\* C27: in every response of execute_code, a result with status accepted
\* has passed = true: no test case is reported as accepted yet not passed,
\* including when the backend's stdout is empty or whitespace-only.
\* (Stated as claimed; without a stdout the backend's status is kept and
\* passed stays False.)
C27_Claim ==
    /\ \A i \in 1..Len(results) :
          results[i].status = "accepted" => results[i].passed
    /\ pc = "done" =>
          \A i \in 1..Len(response[1].results) :
              response[1].results[i].status = "accepted" =>
                  response[1].results[i].passed

C30_NoMemoryLimitExceeded ==
    /\ \A i \in 1..Len(results) :
          /\ results[i].status \in ExecutionStatus
          /\ results[i].status # "memory_limit_exceeded"
    /\ pc = "done" =>
          \A i \in 1..Len(response[1].results) :
              response[1].results[i].status # "memory_limit_exceeded"

\* a finished request whose test cases ended in a runtime error and in a
\* time limit, reported under those names
C30_Witness ==
    /\ pc = "done"
    /\ \E i \in 1..Len(response[1].results) :
          response[1].results[i].status = "runtime_error"
    /\ \E i \in 1..Len(response[1].results) :
          response[1].results[i].status = "time_limit_exceeded"

\* most steps one test case takes: _prepare_code, the POST, max_attempts
\* GETs and sleeps, the evaluation
StepsPerTest == 2 * max_attempts + 3

\* most steps the iteration on the current test case still takes
StepsOfIteration ==
    CASE pc = "prepare" -> StepsPerTest
      [] pc = "submit" -> StepsPerTest - 1
      [] pc = "poll" -> 2 * (max_attempts - attempts) + 1
      [] pc = "sleep" -> 2 * (max_attempts - attempts) + 2
      [] pc = "evaluate" -> 1
      [] OTHER -> 0

\* most steps execute_code still takes before it has returned
StepsLeft ==
    CASE pc = "done" -> 0
      [] pc = "return" -> 1
      [] OTHER -> (Len(test_cases) - idx) * StepsPerTest + StepsOfIteration + 1

\* C29: execute_code always terminates and returns a response without
\* raising to its caller, for every finite list of test cases and every
\* backend behaviour (HTTP errors, malformed payloads, results that stay
\* queued or running forever), after at most one POST and at most 20 GETs
\* per test case.  Until it has returned a step is always enabled, every
\* step lowers the number of steps left, which starts at no more than
\* StepsPerTest for each test case and one; a POST is the first for its
\* test case and a GET is at most the max_attempts-th since that POST; the
\* run ends with the response set.
C29_Terminates ==
    /\ [](/\ pc # "done" => ENABLED Next
          /\ pc = "done" => (response # <<>> /\ ~ENABLED Next)
          /\ StepsLeft >= 0
          /\ StepsLeft <= Len(test_cases) * StepsPerTest + 1
          /\ Len(posts) <= Len(test_cases)
          /\ attempts <= max_attempts)
    /\ [][/\ StepsLeft' < StepsLeft
          /\ io' = "POST" =>
                (posts' = Append(posts, idx) /\ \A i \in 1..Len(posts) : posts[i] < idx)
          /\ io' = "GET" => attempts < max_attempts]_vars

\* the request has ended after a test case whose result stayed running for
\* all max_attempts GETs and a test case that passed
C29_Witness ==
    /\ pc = "done"
    /\ Len(response[1].results) = 2
    /\ response[1].results[1].error_message = TimeoutText
    /\ response[1].results[2].passed

====
